---------------------------- MODULE Spec2Model ----------------------------
(***************************************************************************)
(* Model of ScopeDeskewWizard (src/ngscopeclient/ScopeDeskewWizard.cpp):   *)
(* the multi-trial calibration state machine (DoRender /                   *)
(* DoMainProcessingFlow / StartCorrelation) and the three correlation      *)
(* backends (DoProcessWaveformSparse, DoProcessWaveformUniformUnequalRate, *)
(* DoProcessWaveformUniformUnequalRateVulkan).                             *)
(*                                                                         *)
(* Numbers.  Amplitudes are small integers, so every sum of products is an *)
(* exact integer in double precision.  A normalized correlation            *)
(* correlation / samplesProcessed is kept as the reduced fraction          *)
(* [num, den]; den = 0 stands for the not-a-number result of 0.0 / 0.      *)
(* Times are int64 femtoseconds; the values used here are far from 2^63,   *)
(* so the arithmetic is plain integer arithmetic.                          *)
(***************************************************************************)
EXTENDS Integers, Sequences, FiniteSets, TLC

VARIABLES
    m_state,                 \* wizard state (STATE_WELCOME_1 .. STATE_DONE)
    m_measureCycle,          \* trial counter
    m_lastTriggerTimestamp,  \* recorded data-arrival signature, seconds part
    m_lastTriggerFs,         \* recorded data-arrival signature, fs part
    m_bestCorrelation,       \* running best normalized correlation
    m_bestCorrelationOffset, \* offset of the running best
    m_skews,                 \* history: skew per recorded trial
    m_correlations,          \* history: correlation per recorded trial
    m_scopeDeskewCal,        \* calibration sink of the parent (sequence of writes)
    g_hasShaderInt64,        \* device capability flag
    g_hasShaderFloat64,      \* device capability flag
    primaryData,             \* m_primaryStream.GetData(): a waveform or NoData
    secondaryData,           \* m_secondaryStream.GetData(): a waveform or NoData
    armed,                   \* a single-shot acquisition is outstanding
    armCount,                \* number of m_group->Arm() calls so far
    acqCount,                \* number of acquisitions delivered so far
    trialLog                 \* history variable: outcome of each completed
                             \* correlation and the backend that computed
                             \* it, in completion order

VARIABLES
    tickPc,                  \* position of the control thread inside a tick
                             \* ("Idle" between ticks)
    waveformDataMutex,       \* m_session.GetWaveformDataMutex(): the number of
                             \* shared owners and the exclusive-owner flag
    writer                   \* position of the acquisition thread

VARIABLES
    workerPc,                \* position of each worker of the running parallel
                             \* loop, by candidate offset ("idle": no loop runs)
    cmutex,                  \* std::mutex cmutex of the running CPU backend:
                             \* the set of candidates whose worker owns it
                             \* (empty when the mutex is free)
    entryBest                \* history variable: the running best at the entry
                             \* of the last parallel loop

\* The lock-level state, used by the tick taken statement by statement.
lockVars == << tickPc, waveformDataMutex, writer >>

\* The state of the parallel loop, used by the loop taken worker by worker.
ompVars == << workerPc, cmutex, entryBest >>

vars == << m_state, m_measureCycle, m_lastTriggerTimestamp, m_lastTriggerFs,
           m_bestCorrelation, m_bestCorrelationOffset, m_skews, m_correlations,
           m_scopeDeskewCal, g_hasShaderInt64, g_hasShaderFloat64,
           primaryData, secondaryData, armed, armCount, acqCount, trialLog,
           tickPc, waveformDataMutex, writer, workerPc, cmutex, entryBest >>

---------------------------------------------------------------------------
(* Bounds of the model and program constants                               *)

\* Longest waveform drawn as an input of a single correlation.
MaxLen == 2

\* m_maxSkewSamples is 30000 in the constructor; the model searches the
\* window [-m_maxSkewSamples, +m_maxSkewSamples) for this reduced magnitude.
m_maxSkewSamples == 2

\* const int nWaveforms = 10
nWaveforms == 10

---------------------------------------------------------------------------
(* Doubles as exact fractions                                              *)

RECURSIVE Gcd(_, _)
Gcd(a, b) == IF b = 0 THEN a ELSE Gcd(b, a % b)

Abs(x) == IF x < 0 THEN -x ELSE x

NaN == [num |-> 0, den |-> 0]

IsNaN(x) == x.den = 0

\* The double n / d for an integer-valued n and an integer count d >= 0.
\* A non-zero sum over zero samples cannot occur (the sum starts at 0).
Quotient(n, d) ==
    IF d = 0 THEN NaN
    ELSE LET g == Gcd(Abs(n), d) IN [num |-> n \div g, den |-> d \div g]

Zero == Quotient(0, 1)

\* The mutant of Gt: an unordered comparison written as !(a <= b), which a
\* not-a-number operand satisfies.
GtUnordered(a, b) ==
    IsNaN(a) \/ IsNaN(b) \/ a.num * b.den > b.num * a.den

\* a > b on doubles: false as soon as one operand is not-a-number.
Gt(a, b) ==
    /\ ~IsNaN(a)
    /\ ~IsNaN(b)
    /\ a.num * b.den > b.num * a.den

---------------------------------------------------------------------------
(* Waveforms                                                               *)

\* GetData() returning a null pointer.
NoData == [kind |-> "null"]

UniformAnalogWaveform(ts, phase, samples) ==
    [ kind |-> "uniform", m_timescale |-> ts, m_triggerPhase |-> phase,
      m_samples |-> samples, m_offsets |-> << >>, m_durations |-> << >>,
      m_startTimestamp |-> 0, m_startFemtoseconds |-> 0 ]

SparseAnalogWaveform(ts, phase, samples, offsets, durations) ==
    [ kind |-> "sparse", m_timescale |-> ts, m_triggerPhase |-> phase,
      m_samples |-> samples, m_offsets |-> offsets, m_durations |-> durations,
      m_startTimestamp |-> 0, m_startFemtoseconds |-> 0 ]

\* dynamic_cast<UniformAnalogWaveform*>(p) != nullptr
IsUniform(w) == w.kind = "uniform"

\* dynamic_cast<SparseAnalogWaveform*>(p) != nullptr
IsSparse(w) == w.kind = "sparse"

\* The candidate offsets of the parallel loops, d = -m_maxSkewSamples ..
\* m_maxSkewSamples - 1.
Window == (-m_maxSkewSamples) .. (m_maxSkewSamples - 1)

---------------------------------------------------------------------------
(* Uniform CPU backend, one candidate offset                               *)

\* while( ((isecondary + 1) * psec->m_timescale) < utarget ) { isecondary ++;
\*   if(isecondary >= slen) { done = true; break; } }
RECURSIVE UniformAdvance(_, _, _)
UniformAdvance(psec, isecondary, utarget) ==
    IF (isecondary + 1) * psec.m_timescale < utarget
    THEN IF isecondary + 1 >= Len(psec.m_samples)
         THEN [done |-> TRUE, isecondary |-> isecondary + 1]
         ELSE UniformAdvance(psec, isecondary + 1, utarget)
    ELSE [done |-> FALSE, isecondary |-> isecondary]

\* for(size_t i=0; i<(size_t)len; i++) { ... }, from iteration i on, with the
\* loop's locals as arguments (i and isecondary are zero-based as in the code).
RECURSIVE UniformLoop(_, _, _, _, _, _, _)
UniformLoop(ppri, psec, deltaFs, i, isecondary, correlation, samplesProcessed) ==
    IF i >= Len(ppri.m_samples)
    THEN [correlation |-> correlation, samplesProcessed |-> samplesProcessed]
    ELSE LET target == i * ppri.m_timescale + deltaFs IN
         IF target < 0
         THEN UniformLoop(ppri, psec, deltaFs, i + 1, isecondary,
                          correlation, samplesProcessed)
         ELSE LET adv == UniformAdvance(psec, isecondary, target) IN
              IF adv.done
              THEN [correlation |-> correlation,
                    samplesProcessed |-> samplesProcessed]
              ELSE UniformLoop(ppri, psec, deltaFs, i + 1, adv.isecondary,
                       correlation
                         + ppri.m_samples[i + 1] * psec.m_samples[adv.isecondary + 1],
                       samplesProcessed + 1)

\* The same loop, keeping in place of the sums the index pairs
\* << i, isecondary >> whose samples it multiplies.
RECURSIVE UniformMatched(_, _, _, _, _, _)
UniformMatched(ppri, psec, deltaFs, i, isecondary, matched) ==
    IF i >= Len(ppri.m_samples)
    THEN matched
    ELSE LET target == i * ppri.m_timescale + deltaFs IN
         IF target < 0
         THEN UniformMatched(ppri, psec, deltaFs, i + 1, isecondary, matched)
         ELSE LET adv == UniformAdvance(psec, isecondary, target) IN
              IF adv.done
              THEN matched
              ELSE UniformMatched(ppri, psec, deltaFs, i + 1, adv.isecondary,
                                  Append(matched, << i, adv.isecondary >>))

\* deltaFs = ppri->m_timescale * d; deltaFs += (priTrigPhase - secTrigPhase)
UniformDeltaFs(ppri, psec, d) ==
    ppri.m_timescale * d + (ppri.m_triggerPhase - psec.m_triggerPhase)

\* Body of the parallel loop for one d, up to the normalized correlation.
UniformNormalizedCorrelation(ppri, psec, d) ==
    LET r == UniformLoop(ppri, psec, UniformDeltaFs(ppri, psec, d), 0, 0, 0, 0)
    IN  Quotient(r.correlation, r.samplesProcessed)

---------------------------------------------------------------------------
(* Sparse CPU backend, one candidate offset                                *)

\* while( (((m_offsets[isecondary] + m_durations[isecondary]) * m_timescale)
\*          + m_triggerPhase) < target ) { isecondary ++; if(...) break; }
RECURSIVE SparseAdvance(_, _, _)
SparseAdvance(psec, isecondary, target) ==
    IF (psec.m_offsets[isecondary + 1] + psec.m_durations[isecondary + 1])
          * psec.m_timescale + psec.m_triggerPhase < target
    THEN IF isecondary + 1 >= Len(psec.m_samples)
         THEN [done |-> TRUE, isecondary |-> isecondary + 1]
         ELSE SparseAdvance(psec, isecondary + 1, target)
    ELSE [done |-> FALSE, isecondary |-> isecondary]

RECURSIVE SparseLoop(_, _, _, _, _, _, _)
SparseLoop(ppri, psec, deltaFs, i, isecondary, correlation, samplesProcessed) ==
    IF i >= Len(ppri.m_samples)
    THEN [correlation |-> correlation, samplesProcessed |-> samplesProcessed]
    ELSE LET start  == ppri.m_offsets[i + 1] * ppri.m_timescale
                         + ppri.m_triggerPhase
             target == start + deltaFs
         IN
         IF target < 0
         THEN SparseLoop(ppri, psec, deltaFs, i + 1, isecondary,
                         correlation, samplesProcessed)
         ELSE LET adv == SparseAdvance(psec, isecondary, target) IN
              IF adv.done
              THEN [correlation |-> correlation,
                    samplesProcessed |-> samplesProcessed]
              ELSE SparseLoop(ppri, psec, deltaFs, i + 1, adv.isecondary,
                       correlation
                         + ppri.m_samples[i + 1] * psec.m_samples[adv.isecondary + 1],
                       samplesProcessed + 1)

\* int64_t deltaFs = ppri->m_timescale * d, then the loop and the division.
SparseNormalizedCorrelation(ppri, psec, d) ==
    LET r == SparseLoop(ppri, psec, ppri.m_timescale * d, 0, 0, 0, 0)
    IN  Quotient(r.correlation, r.samplesProcessed)

---------------------------------------------------------------------------
(* Compare-and-update of the shared best, and the parallel loops           *)

\* The shared best as a pair.
Best(corr, off) == [corr |-> corr, off |-> off]

\* lock_guard<mutex> lock2(cmutex);
\* if(normalizedCorrelation > m_bestCorrelation) { m_bestCorrelation = ...;
\*                                                 m_bestCorrelationOffset = d; }
UpdateCorrelation(best, d, normalizedCorrelation) ==
    IF Gt(normalizedCorrelation, best.corr)
    THEN Best(normalizedCorrelation, d)
    ELSE best

\* #pragma omp parallel for: the iterations run on concurrent workers.  Each
\* computes the normalized correlation of its candidate from read-only data
\* and then enters the critical section once, so a run of the loop is a
\* sequence of critical sections in some order of the candidates.
\* A configuration of the loop is the set `done` of candidates whose critical
\* section has run and the shared best they left; `cands` holds, per
\* candidate d, the normalized correlation nc its iteration computed.
\* CriticalSections gives the configurations one more critical section leads to.
CriticalSections(configs, cands) ==
    UNION { { [ done |-> c.done \cup { cand.d },
                best |-> UpdateCorrelation(c.best, cand.d, cand.nc) ] :
              cand \in { x \in cands : x.d \notin c.done } } :
            c \in configs }

\* The configurations after k more critical sections.
RECURSIVE ParallelFor(_, _, _)
ParallelFor(configs, cands, k) ==
    IF k = 0
    THEN configs
    ELSE ParallelFor(CriticalSections(configs, cands), cands, k - 1)

\* DoProcessWaveformUniformUnequalRate: the values (m_bestCorrelation,
\* m_bestCorrelationOffset) can have on return, over all orders of the
\* critical sections, from their value `best` on entry (the function never
\* resets it).
DoProcessWaveformUniformUnequalRate(best, ppri, psec) ==
    LET cands == { [d |-> d, nc |-> UniformNormalizedCorrelation(ppri, psec, d)] :
                   d \in Window }
        final == ParallelFor({ [done |-> { }, best |-> best] }, cands,
                             Cardinality(Window))
    IN  { c.best : c \in final }

\* DoProcessWaveformSparse, likewise.
DoProcessWaveformSparse(best, ppri, psec) ==
    LET cands == { [d |-> d, nc |-> SparseNormalizedCorrelation(ppri, psec, d)] :
                   d \in Window }
        final == ParallelFor({ [done |-> { }, best |-> best] }, cands,
                             Cardinality(Window))
    IN  { c.best : c \in final }

---------------------------------------------------------------------------
(* Accelerator backend                                                     *)

\* UniformUnequalCrossCorrelateArgs(ppri, psec, delta)
UniformUnequalCrossCorrelateArgs(ppri, psec, delta) ==
    [ priTimescale |-> ppri.m_timescale, secTimescale |-> psec.m_timescale,
      priTrigPhase |-> ppri.m_triggerPhase, secTrigPhase |-> psec.m_triggerPhase,
      priLen |-> Len(ppri.m_samples), secLen |-> Len(psec.m_samples),
      startingDelta |-> delta ]

\* The compute shader shaders/ScopeDeskewUniformUnequalRate is not part of the
\* source at hand.  It is modelled by the per-offset reduction the
\* specification gives for a Uniform secondary: skip a primary sample whose
\* target time is negative, match the others with the secondary sample at the
\* direct index target / secTimescale, and stop at the first index past the
\* end of the secondary waveform.
RECURSIVE ShaderLoop(_, _, _, _, _, _, _)
ShaderLoop(args, pri, sec, deltaFs, i, correlation, samplesProcessed) ==
    IF i >= args.priLen
    THEN [correlation |-> correlation, samplesProcessed |-> samplesProcessed]
    ELSE LET target == i * args.priTimescale + deltaFs IN
         IF target < 0
         THEN ShaderLoop(args, pri, sec, deltaFs, i + 1,
                         correlation, samplesProcessed)
         ELSE LET index == target \div args.secTimescale IN
              IF index >= args.secLen
              THEN [correlation |-> correlation,
                    samplesProcessed |-> samplesProcessed]
              ELSE ShaderLoop(args, pri, sec, deltaFs, i + 1,
                       correlation + pri[i + 1] * sec[index + 1],
                       samplesProcessed + 1)

\* One invocation of the shader: output element `gid` of corrOut.
ShaderInvocation(args, pri, sec, gid) ==
    LET d       == gid + args.startingDelta
        deltaFs == d * args.priTimescale + (args.priTrigPhase - args.secTrigPhase)
        r       == ShaderLoop(args, pri, sec, deltaFs, 0, 0, 0)
    IN  Quotient(r.correlation, r.samplesProcessed)

\* Dispatch + SubmitAndBlock: corrOut[0 .. 2*m_maxSkewSamples - 1] (zero-based).
Dispatch(args, pri, sec) ==
    [gid \in 0 .. (2 * m_maxSkewSamples - 1) |-> ShaderInvocation(args, pri, sec, gid)]

\* for(int64_t i=0; i<2*m_maxSkewSamples; i++) if(corrOut[i] > bestCorr) {...}
\* from index i on; best is (bestCorr, bestOffset).
RECURSIVE CrunchResults(_, _, _)
CrunchResults(corrOut, i, best) ==
    IF i >= 2 * m_maxSkewSamples
    THEN best
    ELSE CrunchResults(corrOut, i + 1,
            IF Gt(corrOut[i], best.corr)
            THEN Best(corrOut[i], i - m_maxSkewSamples)
            ELSE best)

\* DoProcessWaveformUniformUnequalRateVulkan: the value assigned to
\* (m_bestCorrelation, m_bestCorrelationOffset).
DoProcessWaveformUniformUnequalRateVulkan(ppri, psec) ==
    LET args    == UniformUnequalCrossCorrelateArgs(ppri, psec, -m_maxSkewSamples)
        corrOut == Dispatch(args, ppri.m_samples, psec.m_samples)
    IN  CrunchResults(corrOut, 0, Best(Zero, 0))

---------------------------------------------------------------------------
(* The wizard                                                              *)

\* The data-arrival signature (m_startTimestamp, m_startFemtoseconds) of the
\* n-th acquisition: a timestamp pair that advances with n.
Signature(n) == << 1 + (n \div 2), n % 2 >>

Stamp(w, n) ==
    IF w = NoData THEN w
    ELSE [w EXCEPT !.m_startTimestamp = Signature(n)[1],
                   !.m_startFemtoseconds = Signature(n)[2]]

\* Waveform pairs the acquisition collaborator delivers in a session.
U12  == UniformAnalogWaveform(1, 0, << 1, 2 >>)
S31  == SparseAnalogWaveform(1, 0, << 3, 1 >>, << 0, 1 >>, << 1, 1 >>)

TrialPairs ==
    { << U12, U12 >>,      \* Uniform / Uniform
      << S31, S31 >>,      \* Sparse / Sparse
      << U12, S31 >>,      \* mixed variants
      << U12, NoData >> }  \* secondary stream without a waveform

\* No parallel loop is running.
NoWorkers == [d \in Window |-> "idle"]

\* m_group->Arm(TriggerGroup::TRIGGER_TYPE_SINGLE)
Arm ==
    /\ armed' = TRUE
    /\ armCount' = armCount + 1

\* Constructor: the member initializers, and the environment the wizard is
\* opened in (capability flags, waveforms already on the streams or none).
Init ==
    /\ m_state = "STATE_WELCOME_1"
    /\ m_measureCycle = 0
    /\ m_lastTriggerTimestamp = 0
    /\ m_lastTriggerFs = 0
    /\ m_bestCorrelation = Zero
    /\ m_bestCorrelationOffset = 0
    /\ m_skews = << >>
    /\ m_correlations = << >>
    /\ m_scopeDeskewCal = << >>
    /\ g_hasShaderInt64 \in BOOLEAN
    /\ g_hasShaderFloat64 \in BOOLEAN
    /\ \E pair \in { << NoData, NoData >>, << U12, U12 >> } :
          /\ primaryData = Stamp(pair[1], 0)
          /\ secondaryData = Stamp(pair[2], 0)
    /\ armed = FALSE
    /\ armCount = 0
    /\ acqCount = 0
    /\ trialLog = << >>
    /\ tickPc = "Idle"
    /\ waveformDataMutex = [shared |-> 0, exclusive |-> FALSE]
    /\ writer = "idle"
    /\ workerPc = NoWorkers
    /\ cmutex = { }
    /\ entryBest = Best(Zero, 0)

\* The "Continue" buttons of the four introductory pages.
Continue ==
    /\ m_state \in { "STATE_WELCOME_1", "STATE_WELCOME_2",
                     "STATE_WELCOME_3", "STATE_WELCOME_4" }
    /\ m_state' = CASE m_state = "STATE_WELCOME_1" -> "STATE_WELCOME_2"
                    [] m_state = "STATE_WELCOME_2" -> "STATE_WELCOME_3"
                    [] m_state = "STATE_WELCOME_3" -> "STATE_WELCOME_4"
                    [] m_state = "STATE_WELCOME_4" -> "STATE_WELCOME_5"
    /\ UNCHANGED << m_measureCycle, m_lastTriggerTimestamp, m_lastTriggerFs,
                    m_bestCorrelation, m_bestCorrelationOffset, m_skews,
                    m_correlations, m_scopeDeskewCal, g_hasShaderInt64,
                    g_hasShaderFloat64, primaryData, secondaryData, armed,
                    armCount, acqCount, trialLog >>
    /\ UNCHANGED lockVars
    /\ UNCHANGED ompVars

\* The "Start" button.
Start ==
    /\ m_state = "STATE_WELCOME_5"
    /\ ~waveformDataMutex.exclusive
    /\ m_state' = "STATE_ACQUIRE"
    /\ IF primaryData # NoData
       THEN /\ m_lastTriggerTimestamp' = primaryData.m_startTimestamp
            /\ m_lastTriggerFs' = primaryData.m_startFemtoseconds
       ELSE UNCHANGED << m_lastTriggerTimestamp, m_lastTriggerFs >>
    /\ Arm
    /\ UNCHANGED << m_measureCycle, m_bestCorrelation, m_bestCorrelationOffset,
                    m_skews, m_correlations, m_scopeDeskewCal,
                    g_hasShaderInt64, g_hasShaderFloat64, primaryData,
                    secondaryData, acqCount, trialLog >>
    /\ UNCHANGED lockVars
    /\ UNCHANGED ompVars

\* The trigger group answers an outstanding single-shot request: both streams
\* get the waveforms of the new acquisition, stamped with its signature.
Acquire ==
    /\ armed
    /\ \E pair \in TrialPairs :
          /\ primaryData' = Stamp(pair[1], acqCount + 1)
          /\ secondaryData' = Stamp(pair[2], acqCount + 1)
    /\ armed' = FALSE
    /\ acqCount' = acqCount + 1
    /\ UNCHANGED << m_state, m_measureCycle, m_lastTriggerTimestamp,
                    m_lastTriggerFs, m_bestCorrelation, m_bestCorrelationOffset,
                    m_skews, m_correlations, m_scopeDeskewCal,
                    g_hasShaderInt64, g_hasShaderFloat64, armCount, trialLog >>
    /\ UNCHANGED lockVars
    /\ UNCHANGED ompVars

\* The mutant of SelectBackend: the accelerator path gated on the 64-bit
\* integer capability alone.
SelectBackendInt64Only(pri, sec) ==
    IF IsUniform(pri) /\ IsUniform(sec)
    THEN IF g_hasShaderInt64
         THEN "DoProcessWaveformUniformUnequalRateVulkan"
         ELSE "DoProcessWaveformUniformUnequalRate"
    ELSE IF IsSparse(pri) /\ IsSparse(sec)
         THEN "DoProcessWaveformSparse"
         ELSE "LogError"

\* StartCorrelation, the dispatch: the function called for (pri, sec).
\* "LogError" stands for the "Mixed sparse and uniform waveforms not
\* implemented" return, which a null secondary takes as well.
SelectBackend(pri, sec) ==
    IF IsUniform(pri) /\ IsUniform(sec)
    THEN IF g_hasShaderInt64 /\ g_hasShaderFloat64
         THEN "DoProcessWaveformUniformUnequalRateVulkan"
         ELSE "DoProcessWaveformUniformUnequalRate"
    ELSE IF IsSparse(pri) /\ IsSparse(sec)
         THEN "DoProcessWaveformSparse"
         ELSE "LogError"

\* StartCorrelation, first half: the values the selected backend can leave in
\* (m_bestCorrelation, m_bestCorrelationOffset); the empty set for the
\* LogError return.
CorrelationOutcomes(best, pri, sec) ==
    LET backend == SelectBackend(pri, sec) IN
    CASE backend = "DoProcessWaveformUniformUnequalRateVulkan" ->
            { DoProcessWaveformUniformUnequalRateVulkan(pri, sec) }
      [] backend = "DoProcessWaveformUniformUnequalRate" ->
            DoProcessWaveformUniformUnequalRate(best, pri, sec)
      [] backend = "DoProcessWaveformSparse" ->
            DoProcessWaveformSparse(best, pri, sec)
      [] OTHER -> { }

\* The mutant of Skew: the primary's trigger phase added to the product.
SkewWithTriggerPhase(bestCorrelationOffset, pri) ==
    bestCorrelationOffset * pri.m_timescale + pri.m_triggerPhase

\* int64_t skew = m_bestCorrelationOffset * pri->m_timescale
Skew(bestCorrelationOffset, pri) == bestCorrelationOffset * pri.m_timescale

\* StartCorrelation
StartCorrelation ==
    LET pri  == primaryData
        sec  == secondaryData
        outs == CorrelationOutcomes(Best(m_bestCorrelation, m_bestCorrelationOffset),
                                    pri, sec)
    IN  IF outs = { }
        THEN UNCHANGED << m_bestCorrelation, m_bestCorrelationOffset,
                          m_skews, m_correlations, trialLog >>
        ELSE \E out \in outs :
               /\ m_bestCorrelation' = out.corr
               /\ m_bestCorrelationOffset' = out.off
               /\ m_correlations' = Append(m_correlations, out.corr)
               /\ m_skews' = Append(m_skews, Skew(out.off, pri))
               /\ trialLog' = Append(trialLog,
                                 [skew |-> Skew(out.off, pri), correlation |-> out.corr,
                                  backend |-> SelectBackend(pri, sec)])

\* DoMainProcessingFlow, case STATE_ACQUIRE: if(!data) return;
TickAcquireNoData ==
    /\ m_state = "STATE_ACQUIRE"
    /\ primaryData = NoData
    /\ UNCHANGED vars

\* DoMainProcessingFlow, case STATE_ACQUIRE: same timestamp, stale data.
TickAcquireStale ==
    /\ m_state = "STATE_ACQUIRE"
    /\ primaryData # NoData
    /\ m_lastTriggerTimestamp = primaryData.m_startTimestamp
    /\ m_lastTriggerFs = primaryData.m_startFemtoseconds
    /\ UNCHANGED vars

\* The mutant of TickAcquireNew: the new-data tick without the two
\* assignments that record the timestamp.
TickAcquireNewUnrecorded ==
    /\ m_state = "STATE_ACQUIRE"
    /\ primaryData # NoData
    /\ ~ ( /\ m_lastTriggerTimestamp = primaryData.m_startTimestamp
           /\ m_lastTriggerFs = primaryData.m_startFemtoseconds )
    /\ StartCorrelation
    /\ m_state' = "STATE_CORRELATE"
    /\ UNCHANGED << m_measureCycle, m_lastTriggerTimestamp, m_lastTriggerFs,
                    m_scopeDeskewCal, g_hasShaderInt64, g_hasShaderFloat64,
                    primaryData, secondaryData, armed, armCount, acqCount >>
    /\ UNCHANGED lockVars
    /\ UNCHANGED ompVars

\* DoMainProcessingFlow, case STATE_ACQUIRE: new measurement.
TickAcquireNew ==
    /\ m_state = "STATE_ACQUIRE"
    /\ primaryData # NoData
    /\ ~ ( /\ m_lastTriggerTimestamp = primaryData.m_startTimestamp
           /\ m_lastTriggerFs = primaryData.m_startFemtoseconds )
    /\ m_lastTriggerTimestamp' = primaryData.m_startTimestamp
    /\ m_lastTriggerFs' = primaryData.m_startFemtoseconds
    /\ StartCorrelation
    /\ m_state' = "STATE_CORRELATE"
    /\ UNCHANGED << m_measureCycle, m_scopeDeskewCal, g_hasShaderInt64,
                    g_hasShaderFloat64, primaryData, secondaryData, armed,
                    armCount, acqCount >>
    /\ UNCHANGED lockVars
    /\ UNCHANGED ompVars

\* DoMainProcessingFlow, case STATE_CORRELATE with m_measureCycle + 1 >= nWaveforms.
TickCorrelateDone ==
    /\ m_state = "STATE_CORRELATE"
    /\ m_measureCycle' = m_measureCycle + 1
    /\ m_measureCycle' >= nWaveforms
    /\ m_state' = "STATE_DONE"
    /\ UNCHANGED << m_lastTriggerTimestamp, m_lastTriggerFs, m_bestCorrelation,
                    m_bestCorrelationOffset, m_skews, m_correlations,
                    m_scopeDeskewCal, g_hasShaderInt64, g_hasShaderFloat64,
                    primaryData, secondaryData, armed, armCount, acqCount,
                    trialLog >>
    /\ UNCHANGED lockVars
    /\ UNCHANGED ompVars

\* The mutant of TickCorrelateNext: the tick without m_measureCycle ++.
TickCorrelateNextUncounted ==
    /\ m_state = "STATE_CORRELATE"
    /\ m_measureCycle < nWaveforms
    /\ Arm
    /\ m_state' = "STATE_ACQUIRE"
    /\ UNCHANGED << m_measureCycle, m_lastTriggerTimestamp, m_lastTriggerFs,
                    m_bestCorrelation, m_bestCorrelationOffset, m_skews,
                    m_correlations, m_scopeDeskewCal, g_hasShaderInt64,
                    g_hasShaderFloat64, primaryData, secondaryData, acqCount,
                    trialLog >>
    /\ UNCHANGED lockVars
    /\ UNCHANGED ompVars

\* The mutant of TickCorrelateNext: back to STATE_ACQUIRE without the Arm call.
TickCorrelateNextNoArm ==
    /\ m_state = "STATE_CORRELATE"
    /\ m_measureCycle' = m_measureCycle + 1
    /\ m_measureCycle' < nWaveforms
    /\ m_state' = "STATE_ACQUIRE"
    /\ UNCHANGED << m_lastTriggerTimestamp, m_lastTriggerFs, m_bestCorrelation,
                    m_bestCorrelationOffset, m_skews, m_correlations,
                    m_scopeDeskewCal, g_hasShaderInt64, g_hasShaderFloat64,
                    primaryData, secondaryData, armed, armCount, acqCount,
                    trialLog >>
    /\ UNCHANGED lockVars
    /\ UNCHANGED ompVars

\* DoMainProcessingFlow, case STATE_CORRELATE, more waveforms to grab.
TickCorrelateNext ==
    /\ m_state = "STATE_CORRELATE"
    /\ m_measureCycle' = m_measureCycle + 1
    /\ m_measureCycle' < nWaveforms
    /\ Arm
    /\ m_state' = "STATE_ACQUIRE"
    /\ UNCHANGED << m_lastTriggerTimestamp, m_lastTriggerFs, m_bestCorrelation,
                    m_bestCorrelationOffset, m_skews, m_correlations,
                    m_scopeDeskewCal, g_hasShaderInt64, g_hasShaderFloat64,
                    primaryData, secondaryData, acqCount, trialLog >>
    /\ UNCHANGED lockVars
    /\ UNCHANGED ompVars

\* DoMainProcessingFlow, default: (STATE_DONE).
TickDone ==
    /\ m_state = "STATE_DONE"
    /\ UNCHANGED vars

\* One call of DoMainProcessingFlow from DoRender.
DoMainProcessingFlow ==
    \/ TickAcquireNoData
    \/ TickAcquireStale
    \/ TickAcquireNew
    \/ TickCorrelateDone
    \/ TickCorrelateNext
    \/ TickDone

\* A frame of the user interface (DoRender) or a step of the acquisition.
Next ==
    \/ Continue
    \/ Start
    \/ Acquire
    \/ DoMainProcessingFlow

Spec == Init /\ [][Next]_vars

---------------------------------------------------------------------------
(* The new-data tick statement by statement, with the waveform-data mutex   *)
(* and an acquisition thread that takes it exclusively                      *)

wizardData == << m_measureCycle, m_bestCorrelation, m_bestCorrelationOffset,
                 m_skews, m_correlations, m_scopeDeskewCal, g_hasShaderInt64,
                 g_hasShaderFloat64, trialLog >>

\* shared_lock<shared_mutex> lock(...): the mutex with one more shared owner.
LockShared(mutex) == [mutex EXCEPT !.shared = @ + 1]

\* Destructor of a shared_lock at the end of its scope.
UnlockShared(mutex) == [mutex EXCEPT !.shared = @ - 1]

\* The backends that open with their own shared_lock on the mutex.
LocksAgain(backend) ==
    backend \in { "DoProcessWaveformUniformUnequalRate", "DoProcessWaveformSparse" }

\* case STATE_ACQUIRE: shared_lock<shared_mutex> lock(...).
TickLockShared ==
    /\ m_state = "STATE_ACQUIRE"
    /\ tickPc = "Idle"
    /\ ~waveformDataMutex.exclusive
    /\ waveformDataMutex' = LockShared(waveformDataMutex)
    /\ tickPc' = "Check"
    /\ UNCHANGED << m_state, m_lastTriggerTimestamp, m_lastTriggerFs, primaryData,
                    secondaryData, armed, armCount, acqCount, writer >>
    /\ UNCHANGED wizardData
    /\ UNCHANGED ompVars

\* The mutant of TickReturnNotReady: a poll that finds nothing new asks for
\* another acquisition before it returns.
TickReturnNotReadyRearm ==
    /\ tickPc = "Check"
    /\ \/ primaryData = NoData
       \/ /\ primaryData # NoData
          /\ m_lastTriggerTimestamp = primaryData.m_startTimestamp
          /\ m_lastTriggerFs = primaryData.m_startFemtoseconds
    /\ armCount < nWaveforms
    /\ Arm
    /\ waveformDataMutex' = UnlockShared(waveformDataMutex)
    /\ tickPc' = "Idle"
    /\ UNCHANGED << m_state, m_lastTriggerTimestamp, m_lastTriggerFs, primaryData,
                    secondaryData, acqCount, writer >>
    /\ UNCHANGED wizardData
    /\ UNCHANGED ompVars

\* if(!data) return;  and the stale-data return: the lock's scope ends.
TickReturnNotReady ==
    /\ tickPc = "Check"
    /\ \/ primaryData = NoData
       \/ /\ primaryData # NoData
          /\ m_lastTriggerTimestamp = primaryData.m_startTimestamp
          /\ m_lastTriggerFs = primaryData.m_startFemtoseconds
    /\ waveformDataMutex' = UnlockShared(waveformDataMutex)
    /\ tickPc' = "Idle"
    /\ UNCHANGED << m_state, m_lastTriggerTimestamp, m_lastTriggerFs, primaryData,
                    secondaryData, armed, armCount, acqCount, writer >>
    /\ UNCHANGED wizardData
    /\ UNCHANGED ompVars

\* The mutant of TickRecordTimestamp: the lock scoped to the check alone, as
\* the block around the read in the Start handler is.
TickRecordTimestampUnlocked ==
    /\ tickPc = "Check"
    /\ primaryData # NoData
    /\ ~ ( /\ m_lastTriggerTimestamp = primaryData.m_startTimestamp
           /\ m_lastTriggerFs = primaryData.m_startFemtoseconds )
    /\ m_lastTriggerTimestamp' = primaryData.m_startTimestamp
    /\ m_lastTriggerFs' = primaryData.m_startFemtoseconds
    /\ tickPc' = "StartCorrelation"
    /\ waveformDataMutex' = UnlockShared(waveformDataMutex)
    /\ UNCHANGED << m_state, primaryData, secondaryData, armed, armCount,
                    acqCount, writer >>
    /\ UNCHANGED wizardData
    /\ UNCHANGED ompVars

\* New measurement: record the timestamp; StartCorrelation is called next,
\* inside the scope of the lock.
TickRecordTimestamp ==
    /\ tickPc = "Check"
    /\ primaryData # NoData
    /\ ~ ( /\ m_lastTriggerTimestamp = primaryData.m_startTimestamp
           /\ m_lastTriggerFs = primaryData.m_startFemtoseconds )
    /\ m_lastTriggerTimestamp' = primaryData.m_startTimestamp
    /\ m_lastTriggerFs' = primaryData.m_startFemtoseconds
    /\ tickPc' = "StartCorrelation"
    /\ UNCHANGED << m_state, primaryData, secondaryData, armed, armCount,
                    acqCount, waveformDataMutex, writer >>
    /\ UNCHANGED wizardData
    /\ UNCHANGED ompVars

\* StartCorrelation up to the first statement of the selected backend.  The
\* CPU backends take the shared lock again on the thread that already owns
\* it; here the second lock_shared succeeds.
EnterBackend ==
    /\ tickPc = "StartCorrelation"
    /\ waveformDataMutex' =
          IF LocksAgain(SelectBackend(primaryData, secondaryData))
          THEN LockShared(waveformDataMutex)
          ELSE waveformDataMutex
    /\ tickPc' = "Backend"
    /\ UNCHANGED << m_state, m_lastTriggerTimestamp, m_lastTriggerFs, primaryData,
                    secondaryData, armed, armCount, acqCount, writer >>
    /\ UNCHANGED wizardData
    /\ UNCHANGED ompVars

\* The same statement when an exclusive request is pending and the mutex
\* queues new shared owners behind it: the control thread waits for the
\* writer, which waits for the control thread's first lock.
EnterBackendBlocked ==
    /\ tickPc = "StartCorrelation"
    /\ LocksAgain(SelectBackend(primaryData, secondaryData))
    /\ writer = "waiting"
    /\ tickPc' = "Blocked"
    /\ UNCHANGED << m_state, m_lastTriggerTimestamp, m_lastTriggerFs, primaryData,
                    secondaryData, armed, armCount, acqCount, waveformDataMutex,
                    writer >>
    /\ UNCHANGED wizardData
    /\ UNCHANGED ompVars

\* The backend computes the result and returns (its own lock, if any, is
\* released), and StartCorrelation records it.
BackendReturn ==
    /\ tickPc = "Backend"
    /\ StartCorrelation
    /\ waveformDataMutex' =
          IF LocksAgain(SelectBackend(primaryData, secondaryData))
          THEN UnlockShared(waveformDataMutex)
          ELSE waveformDataMutex
    /\ tickPc' = "Return"
    /\ UNCHANGED << m_state, m_measureCycle, m_lastTriggerTimestamp,
                    m_lastTriggerFs, m_scopeDeskewCal, g_hasShaderInt64,
                    g_hasShaderFloat64, primaryData, secondaryData, armed,
                    armCount, acqCount, writer >>
    /\ UNCHANGED ompVars

\* m_state = STATE_CORRELATE; end of the case block and of the lock's scope.
TickReturn ==
    /\ tickPc = "Return"
    /\ m_state' = "STATE_CORRELATE"
    /\ waveformDataMutex' = UnlockShared(waveformDataMutex)
    /\ tickPc' = "Idle"
    /\ UNCHANGED << m_lastTriggerTimestamp, m_lastTriggerFs, primaryData,
                    secondaryData, armed, armCount, acqCount, writer >>
    /\ UNCHANGED wizardData
    /\ UNCHANGED ompVars

\* The acquisition thread asks for the mutex exclusively: to deliver the
\* acquisition of an outstanding request, or to retire the waveforms on the
\* streams.
WriterRequest ==
    /\ writer = "idle"
    /\ armed \/ primaryData # NoData
    /\ writer' = "waiting"
    /\ UNCHANGED << m_state, m_lastTriggerTimestamp, m_lastTriggerFs, primaryData,
                    secondaryData, armed, armCount, acqCount, tickPc,
                    waveformDataMutex >>
    /\ UNCHANGED wizardData
    /\ UNCHANGED ompVars

\* The exclusive lock is granted once the mutex has no owner.
WriterLock ==
    /\ writer = "waiting"
    /\ waveformDataMutex.shared = 0
    /\ ~waveformDataMutex.exclusive
    /\ waveformDataMutex' = [waveformDataMutex EXCEPT !.exclusive = TRUE]
    /\ writer' = "writing"
    /\ UNCHANGED << m_state, m_lastTriggerTimestamp, m_lastTriggerFs, primaryData,
                    secondaryData, armed, armCount, acqCount, tickPc >>
    /\ UNCHANGED wizardData
    /\ UNCHANGED ompVars

\* Under the exclusive lock: the waveforms of the new acquisition replace
\* those on the streams.
WriterDeliver ==
    /\ writer = "writing"
    /\ armed
    /\ \E pair \in TrialPairs :
          /\ primaryData' = Stamp(pair[1], acqCount + 1)
          /\ secondaryData' = Stamp(pair[2], acqCount + 1)
    /\ armed' = FALSE
    /\ acqCount' = acqCount + 1
    /\ waveformDataMutex' = [waveformDataMutex EXCEPT !.exclusive = FALSE]
    /\ writer' = "idle"
    /\ UNCHANGED << m_state, m_lastTriggerTimestamp, m_lastTriggerFs, armCount,
                    tickPc >>
    /\ UNCHANGED wizardData
    /\ UNCHANGED ompVars

\* Under the exclusive lock: the waveforms on the streams are retired.
WriterRetire ==
    /\ writer = "writing"
    /\ ~armed
    /\ primaryData' = NoData
    /\ secondaryData' = NoData
    /\ waveformDataMutex' = [waveformDataMutex EXCEPT !.exclusive = FALSE]
    /\ writer' = "idle"
    /\ UNCHANGED << m_state, m_lastTriggerTimestamp, m_lastTriggerFs, armed,
                    armCount, acqCount, tickPc >>
    /\ UNCHANGED wizardData
    /\ UNCHANGED ompVars

NextLock ==
    \/ Continue
    \/ Start
    \/ TickLockShared
    \/ TickReturnNotReady
    \/ TickRecordTimestamp
    \/ EnterBackend
    \/ EnterBackendBlocked
    \/ BackendReturn
    \/ TickReturn
    \/ TickCorrelateDone
    \/ TickCorrelateNext
    \/ TickDone
    \/ WriterRequest
    \/ WriterLock
    \/ WriterDeliver
    \/ WriterRetire

SpecLock == Init /\ [][NextLock]_vars

---------------------------------------------------------------------------
(* A single correlation on a freshly constructed wizard                    *)

\* Sample amplitudes of the input waveforms.
Amplitudes == { -1, 0, 2 }

\* Amplitudes of the primary waveforms.
PrimaryAmplitudes == { -1, 2 }

\* Femtoseconds per sample of the input waveforms.
Timescales == { 1, 2 }

SampleSeqs == UNION { [1 .. k -> Amplitudes] : k \in 0 .. MaxLen }

PrimarySampleSeqs == UNION { [1 .. k -> PrimaryAmplitudes] : k \in 0 .. MaxLen }

UniformPrimaries ==
    { UniformAnalogWaveform(ts, 0, s) : ts \in Timescales, s \in PrimarySampleSeqs }

\* The secondary waveform holds at least one sample.
UniformSecondaries ==
    { UniformAnalogWaveform(ts, ph, s) :
        ts \in Timescales, ph \in { 0, 1, 9 }, s \in SampleSeqs \ { << >> } }

\* Sparse waveforms with samples `gap` timescale units apart, each one unit long.
RegularSparse(ts, ph, s, gap) ==
    SparseAnalogWaveform(ts, ph, s, [i \in 1 .. Len(s) |-> gap * (i - 1)],
                         [i \in 1 .. Len(s) |-> 1])

SparsePrimaries ==
    { RegularSparse(1, ph, s, gap) :
        ph \in { 0, 1 }, s \in PrimarySampleSeqs, gap \in { 1, 2 } }

SparseSecondaries ==
    { RegularSparse(ts, ph, s, 1) :
        ts \in Timescales, ph \in { 0, 1 }, s \in SampleSeqs \ { << >> } }

CorrelateInputs ==
    (UniformPrimaries \X UniformSecondaries)
      \cup (SparsePrimaries \X SparseSecondaries)

\* The wizard after Start and the first acquisition: nothing correlated yet,
\* the running best as the constructor left it, a new waveform pair on the
\* streams.
InitCorrelate ==
    /\ m_state = "STATE_ACQUIRE"
    /\ m_measureCycle = 0
    /\ m_lastTriggerTimestamp = 0
    /\ m_lastTriggerFs = 0
    /\ m_bestCorrelation = Zero
    /\ m_bestCorrelationOffset = 0
    /\ m_skews = << >>
    /\ m_correlations = << >>
    /\ m_scopeDeskewCal = << >>
    /\ g_hasShaderInt64 \in BOOLEAN
    /\ g_hasShaderFloat64 = TRUE
    /\ \E pair \in CorrelateInputs :
          /\ primaryData = Stamp(pair[1], 1)
          /\ secondaryData = Stamp(pair[2], 1)
    /\ armed = FALSE
    /\ armCount = 1
    /\ acqCount = 1
    /\ trialLog = << >>
    /\ tickPc = "Idle"
    /\ waveformDataMutex = [shared |-> 0, exclusive |-> FALSE]
    /\ writer = "idle"
    /\ workerPc = NoWorkers
    /\ cmutex = { }
    /\ entryBest = Best(Zero, 0)

\* The tick that observes the new pair and correlates it.
NextCorrelate == TickAcquireNew

SpecCorrelate == InitCorrelate /\ [][NextCorrelate]_vars

---------------------------------------------------------------------------
(* The parallel loop of a CPU backend, worker by worker                     *)

\* A Uniform waveform on which several candidates reach the same normalized
\* correlation.
U22 == UniformAnalogWaveform(1, 0, << 2, 2 >>)

\* Pairs of one variant that a CPU backend correlates.
WorkerPairs ==
    { << U12, U12 >>,
      << U22, U22 >>,
      << S31, S31 >> }

\* The running best a CPU backend can find on entry: the constructor's, or
\* the result an earlier trial left (the backends do not reset it).
EntryBests == { Best(Zero, 0), Best(Quotient(2, 1), -1), Best(Quotient(5, 1), 0) }

\* The control thread has entered the CPU backend selected for the pair on
\* the streams, inside the new-data tick, and the parallel loop starts: one
\* iteration per candidate, each on a worker of its own.
InitWorkers ==
    /\ m_state = "STATE_ACQUIRE"
    /\ m_measureCycle = 0
    /\ m_lastTriggerTimestamp = Signature(1)[1]
    /\ m_lastTriggerFs = Signature(1)[2]
    /\ \E best \in EntryBests :
          /\ m_bestCorrelation = best.corr
          /\ m_bestCorrelationOffset = best.off
          /\ entryBest = best
    /\ m_skews = << >>
    /\ m_correlations = << >>
    /\ m_scopeDeskewCal = << >>
    /\ g_hasShaderInt64 = FALSE
    /\ g_hasShaderFloat64 \in BOOLEAN
    /\ \E pair \in WorkerPairs :
          /\ primaryData = Stamp(pair[1], 1)
          /\ secondaryData = Stamp(pair[2], 1)
    /\ armed = FALSE
    /\ armCount = 1
    /\ acqCount = 1
    /\ trialLog = << >>
    /\ tickPc = "Backend"
    /\ waveformDataMutex = [shared |-> 2, exclusive |-> FALSE]
    /\ writer = "idle"
    /\ workerPc = [d \in Window |-> "loop"]
    /\ cmutex = { }

\* What a worker step leaves alone besides the shared best.
workerFrame == << m_state, m_measureCycle, m_lastTriggerTimestamp,
                  m_lastTriggerFs, m_skews, m_correlations, m_scopeDeskewCal,
                  g_hasShaderInt64, g_hasShaderFloat64, primaryData,
                  secondaryData, armed, armCount, acqCount, trialLog, tickPc,
                  waveformDataMutex, writer, entryBest >>

\* double normalizedCorrelation of the iteration for candidate d: a local of
\* the loop body, computed from the two waveforms and d alone.
NormalizedCorrelation(d) ==
    IF IsSparse(primaryData)
    THEN SparseNormalizedCorrelation(primaryData, secondaryData, d)
    ELSE UniformNormalizedCorrelation(primaryData, secondaryData, d)

\* The loop over the primary samples and the division: deltaFs,
\* samplesProcessed, isecondary, correlation and normalizedCorrelation are
\* declared inside the loop body, so the iteration writes nothing shared.
WorkerLoop(d) ==
    /\ workerPc[d] = "loop"
    /\ workerPc' = [workerPc EXCEPT ![d] = "lock"]
    /\ UNCHANGED << m_bestCorrelation, m_bestCorrelationOffset, cmutex >>
    /\ UNCHANGED workerFrame

\* The mutant of WorkerLock: the compare-and-update entered without taking
\* cmutex.
WorkerLockNoMutex(d) ==
    /\ workerPc[d] = "lock"
    /\ workerPc' = [workerPc EXCEPT ![d] = "compare"]
    /\ UNCHANGED << m_bestCorrelation, m_bestCorrelationOffset, cmutex >>
    /\ UNCHANGED workerFrame

\* lock_guard<mutex> lock2(cmutex);
WorkerLock(d) ==
    /\ workerPc[d] = "lock"
    /\ cmutex = { }
    /\ cmutex' = { d }
    /\ workerPc' = [workerPc EXCEPT ![d] = "compare"]
    /\ UNCHANGED << m_bestCorrelation, m_bestCorrelationOffset >>
    /\ UNCHANGED workerFrame

\* if(normalizedCorrelation > m_bestCorrelation)
WorkerCompare(d) ==
    /\ workerPc[d] = "compare"
    /\ workerPc' = [workerPc EXCEPT ![d] =
                      IF Gt(NormalizedCorrelation(d), m_bestCorrelation)
                      THEN "writeCorrelation"
                      ELSE "unlock"]
    /\ UNCHANGED << m_bestCorrelation, m_bestCorrelationOffset, cmutex >>
    /\ UNCHANGED workerFrame

\* m_bestCorrelation = normalizedCorrelation;
WorkerWriteCorrelation(d) ==
    /\ workerPc[d] = "writeCorrelation"
    /\ m_bestCorrelation' = NormalizedCorrelation(d)
    /\ workerPc' = [workerPc EXCEPT ![d] = "writeOffset"]
    /\ UNCHANGED << m_bestCorrelationOffset, cmutex >>
    /\ UNCHANGED workerFrame

\* m_bestCorrelationOffset = d;
WorkerWriteOffset(d) ==
    /\ workerPc[d] = "writeOffset"
    /\ m_bestCorrelationOffset' = d
    /\ workerPc' = [workerPc EXCEPT ![d] = "unlock"]
    /\ UNCHANGED << m_bestCorrelation, cmutex >>
    /\ UNCHANGED workerFrame

\* End of the loop body: the destructor of lock2 releases cmutex.
WorkerUnlock(d) ==
    /\ workerPc[d] = "unlock"
    /\ cmutex' = { }
    /\ workerPc' = [workerPc EXCEPT ![d] = "done"]
    /\ UNCHANGED << m_bestCorrelation, m_bestCorrelationOffset >>
    /\ UNCHANGED workerFrame

\* Every iteration of the parallel loop has finished.
WorkersDone == \A d \in Window : workerPc[d] = "done"

NextWorkers ==
    \E d \in Window :
        \/ WorkerLoop(d)
        \/ WorkerLock(d)
        \/ WorkerCompare(d)
        \/ WorkerWriteCorrelation(d)
        \/ WorkerWriteOffset(d)
        \/ WorkerUnlock(d)

SpecWorkers == InitWorkers /\ [][NextWorkers]_vars

---------------------------------------------------------------------------
(* The secondary cursor of the CPU backends, and waveforms without samples  *)

\* The values isecondary takes from i to j, appended to a sequence.
RECURSIVE Steps(_, _, _)
Steps(seq, i, j) == IF i > j THEN seq ELSE Steps(Append(seq, i), i + 1, j)

\* size_t isecondary = 0, before any read.
NoReads == [cursor |-> << 0 >>, reads |-> << >>]

\* The loop of DoProcessWaveformUniformUnequalRate over the primary samples
\* for one candidate, keeping the successive values of isecondary (cursor)
\* and the indices at which psec->m_samples is read (reads).  The while
\* condition of this loop reads no element of the secondary waveform.
RECURSIVE UniformTrace(_, _, _, _, _, _)
UniformTrace(ppri, psec, deltaFs, i, isecondary, trace) ==
    IF i >= Len(ppri.m_samples)
    THEN trace
    ELSE LET target == i * ppri.m_timescale + deltaFs IN
         IF target < 0
         THEN UniformTrace(ppri, psec, deltaFs, i + 1, isecondary, trace)
         ELSE LET adv    == UniformAdvance(psec, isecondary, target)
                  cursor == Steps(trace.cursor, isecondary + 1, adv.isecondary)
              IN
              IF adv.done
              THEN [cursor |-> cursor, reads |-> trace.reads]
              ELSE UniformTrace(ppri, psec, deltaFs, i + 1, adv.isecondary,
                       [cursor |-> cursor,
                        reads  |-> Append(trace.reads, adv.isecondary)])

\* The while loop of DoProcessWaveformSparse: each evaluation of its
\* condition reads psec->m_offsets and psec->m_durations at isecondary.  The
\* scan ends at a read outside the waveform (fault), whose value is undefined.
RECURSIVE SparseScan(_, _, _, _)
SparseScan(psec, isecondary, target, trace) ==
    LET read == [trace EXCEPT !.reads = Append(@, isecondary)] IN
    IF isecondary >= Len(psec.m_samples)
    THEN [fault |-> TRUE, done |-> FALSE, isecondary |-> isecondary, trace |-> read]
    ELSE IF (psec.m_offsets[isecondary + 1] + psec.m_durations[isecondary + 1])
               * psec.m_timescale + psec.m_triggerPhase < target
         THEN LET next == [read EXCEPT !.cursor = Append(@, isecondary + 1)] IN
              IF isecondary + 1 >= Len(psec.m_samples)
              THEN [fault |-> FALSE, done |-> TRUE, isecondary |-> isecondary + 1,
                    trace |-> next]
              ELSE SparseScan(psec, isecondary + 1, target, next)
         ELSE [fault |-> FALSE, done |-> FALSE, isecondary |-> isecondary,
               trace |-> read]

\* The loop of DoProcessWaveformSparse over the primary samples for one
\* candidate, with the same bookkeeping; psec->m_samples is read where the
\* product is accumulated.
RECURSIVE SparseTrace(_, _, _, _, _, _)
SparseTrace(ppri, psec, deltaFs, i, isecondary, trace) ==
    IF i >= Len(ppri.m_samples)
    THEN trace
    ELSE LET start  == ppri.m_offsets[i + 1] * ppri.m_timescale
                         + ppri.m_triggerPhase
             target == start + deltaFs
         IN
         IF target < 0
         THEN SparseTrace(ppri, psec, deltaFs, i + 1, isecondary, trace)
         ELSE LET scan == SparseScan(psec, isecondary, target, trace) IN
              IF scan.fault \/ scan.done
              THEN scan.trace
              ELSE SparseTrace(ppri, psec, deltaFs, i + 1, scan.isecondary,
                       [scan.trace EXCEPT !.reads = Append(@, scan.isecondary)])

\* The cursor values and secondary reads of candidate d in the CPU backend
\* for the pair's variant.
CursorTrace(pri, sec, d) ==
    IF IsSparse(pri)
    THEN SparseTrace(pri, sec, pri.m_timescale * d, 0, 0, NoReads)
    ELSE UniformTrace(pri, sec, UniformDeltaFs(pri, sec, d), 0, 0, NoReads)

\* StartCorrelation selects a CPU backend for the pair.
OnCpu(pri, sec) == LocksAgain(SelectBackend(pri, sec))

\* Every read of the secondary waveform made for (pri, sec) is inside it.
ReadsInRange(pri, sec) ==
    OnCpu(pri, sec) =>
        \A d \in Window :
            LET reads == CursorTrace(pri, sec, d).reads IN
            \A k \in DOMAIN reads : reads[k] < Len(sec.m_samples)

\* Waveforms of size zero.
EmptyUniform == { UniformAnalogWaveform(ts, ph, << >>) :
                    ts \in Timescales, ph \in { 0, 1 } }

EmptySparse == { RegularSparse(ts, ph, << >>, 1) :
                    ts \in Timescales, ph \in { 0, 1 } }

IndexInputs ==
    CorrelateInputs
      \cup (UniformPrimaries \X EmptyUniform)
      \cup (SparsePrimaries \X EmptySparse)

\* What a read of element 0 of an empty secondary waveform can find in
\* memory: the waveform seen as holding one sample of arbitrary contents.
\* (With size zero and with size one the cursor leaves the waveform at its
\* first increment, so the loops run alike on both.)
Garbage(sec) ==
    IF IsSparse(sec)
    THEN { SparseAnalogWaveform(sec.m_timescale, sec.m_triggerPhase,
                                << a >>, << o >>, << u >>) :
             a \in Amplitudes, o \in { 0, 3 }, u \in { 0, 1 } }
    ELSE { UniformAnalogWaveform(sec.m_timescale, sec.m_triggerPhase, << a >>) :
             a \in Amplitudes }

\* The wizard after Start and the first acquisition, as InitCorrelate, with
\* the waveforms of size zero among the pairs.
InitIndex ==
    /\ m_state = "STATE_ACQUIRE"
    /\ m_measureCycle = 0
    /\ m_lastTriggerTimestamp = 0
    /\ m_lastTriggerFs = 0
    /\ m_bestCorrelation = Zero
    /\ m_bestCorrelationOffset = 0
    /\ m_skews = << >>
    /\ m_correlations = << >>
    /\ m_scopeDeskewCal = << >>
    /\ g_hasShaderInt64 \in BOOLEAN
    /\ g_hasShaderFloat64 = TRUE
    /\ \E pair \in IndexInputs :
          /\ primaryData = Stamp(pair[1], 1)
          /\ secondaryData = Stamp(pair[2], 1)
    /\ armed = FALSE
    /\ armCount = 1
    /\ acqCount = 1
    /\ trialLog = << >>
    /\ tickPc = "Idle"
    /\ waveformDataMutex = [shared |-> 0, exclusive |-> FALSE]
    /\ writer = "idle"
    /\ workerPc = NoWorkers
    /\ cmutex = { }
    /\ entryBest = Best(Zero, 0)

\* The new-data tick on a pair whose secondary reads are all inside the
\* waveform.
TickAcquireNewInRange ==
    /\ ReadsInRange(primaryData, secondaryData)
    /\ TickAcquireNew

\* The new-data tick on a pair for which a CPU backend reads the secondary
\* waveform outside its size.  The read is undefined: the process ends at
\* the read (tickPc "Crashed", the timestamp already recorded), or the read
\* returns what the memory holds and the tick goes on with it.
TickAcquireNewOutOfRange ==
    /\ m_state = "STATE_ACQUIRE"
    /\ primaryData # NoData
    /\ ~ ( /\ m_lastTriggerTimestamp = primaryData.m_startTimestamp
           /\ m_lastTriggerFs = primaryData.m_startFemtoseconds )
    /\ ~ReadsInRange(primaryData, secondaryData)
    /\ m_lastTriggerTimestamp' = primaryData.m_startTimestamp
    /\ m_lastTriggerFs' = primaryData.m_startFemtoseconds
    /\ \/ /\ tickPc' = "Crashed"
          /\ UNCHANGED << m_state, m_bestCorrelation, m_bestCorrelationOffset,
                          m_skews, m_correlations, trialLog >>
       \/ /\ \E mem \in Garbage(secondaryData) :
               \E out \in CorrelationOutcomes(
                             Best(m_bestCorrelation, m_bestCorrelationOffset),
                             primaryData, mem) :
                  /\ m_bestCorrelation' = out.corr
                  /\ m_bestCorrelationOffset' = out.off
                  /\ m_correlations' = Append(m_correlations, out.corr)
                  /\ m_skews' = Append(m_skews, Skew(out.off, primaryData))
                  /\ trialLog' = Append(trialLog,
                                    [skew |-> Skew(out.off, primaryData),
                                     correlation |-> out.corr,
                                     backend |-> SelectBackend(primaryData, mem)])
          /\ m_state' = "STATE_CORRELATE"
          /\ UNCHANGED tickPc
    /\ UNCHANGED << m_measureCycle, m_scopeDeskewCal, g_hasShaderInt64,
                    g_hasShaderFloat64, primaryData, secondaryData, armed,
                    armCount, acqCount, waveformDataMutex, writer >>
    /\ UNCHANGED ompVars

NextIndex ==
    \/ TickAcquireNewInRange
    \/ TickAcquireNewOutOfRange

SpecIndex == InitIndex /\ [][NextIndex]_vars

---------------------------------------------------------------------------
(* Vocabulary of the properties                                            *)

\* The running best as the constructor leaves it.
FreshBest == Best(Zero, 0)

RecordedBest == Best(m_bestCorrelation, m_bestCorrelationOffset)

AcceleratorUsed == g_hasShaderInt64 /\ g_hasShaderFloat64

SameVariant(pri, sec) ==
    \/ IsUniform(pri) /\ IsUniform(sec)
    \/ IsSparse(pri) /\ IsSparse(sec)

MixedVariants(pri, sec) ==
    \/ IsUniform(pri) /\ IsSparse(sec)
    \/ IsSparse(pri) /\ IsUniform(sec)

\* A correlation has just run on the pair that is on the streams.
Correlated ==
    /\ m_state = "STATE_CORRELATE"
    /\ SameVariant(primaryData, secondaryData)

\* The normalized correlation of candidate d, as the backend that
\* StartCorrelation selects for (pri, sec) computes it.
CandidateCorrelation(pri, sec, d) ==
    IF IsSparse(pri)
    THEN SparseNormalizedCorrelation(pri, sec, d)
    ELSE IF AcceleratorUsed
         THEN ShaderInvocation(
                UniformUnequalCrossCorrelateArgs(pri, sec, -m_maxSkewSamples),
                pri.m_samples, sec.m_samples, d + m_maxSkewSamples)
         ELSE UniformNormalizedCorrelation(pri, sec, d)

\* a >= b for two numbers that are not not-a-number.
Geq(a, b) == a.num * b.den >= b.num * a.den

\* The new-data tick is about to run on the pair on the streams.
NewDataTick ==
    /\ m_state = "STATE_ACQUIRE"
    /\ primaryData # NoData
    /\ << m_lastTriggerTimestamp, m_lastTriggerFs >>
         # << primaryData.m_startTimestamp, primaryData.m_startFemtoseconds >>

\* The session under the scheduling the wizard runs in.  The trigger group
\* answers every single-shot request, and DoRender calls DoMainProcessingFlow
\* on every frame, so a tick that can make progress is eventually taken.  For
\* the new-data tick, whose enabling condition is NewDataTick and which
\* always leaves it, weak fairness is stated on states: the wizard is not
\* forever in a state where a new-data tick is pending.
Fairness ==
    /\ WF_vars(Acquire)
    /\ WF_vars(TickCorrelateDone)
    /\ WF_vars(TickCorrelateNext)
    /\ []<>(~NewDataTick)

SpecLive == Init /\ [][Next]_vars /\ Fairness

\* The k-th smallest element of a non-empty sequence of integers.
KthSmallest(seq, k) ==
    CHOOSE v \in { seq[i] : i \in DOMAIN seq } :
        /\ Cardinality({ i \in DOMAIN seq : seq[i] < v }) < k
        /\ Cardinality({ i \in DOMAIN seq : seq[i] <= v }) >= k

\* Median of a non-empty sequence; for an even count the average of the two
\* central values.
Median(seq) ==
    LET n == Len(seq) IN
    IF n % 2 = 1
    THEN KthSmallest(seq, (n + 1) \div 2)
    ELSE (KthSmallest(seq, n \div 2) + KthSmallest(seq, n \div 2 + 1)) \div 2

\* w delayed by k samples: sample j of the result is sample j - k of w, and
\* zero where w has no such sample.
ShiftBy(w, k) ==
    [w EXCEPT !.m_samples =
        [j \in 1 .. Len(w.m_samples) |->
            IF j - k \in 1 .. Len(w.m_samples) THEN w.m_samples[j - k] ELSE 0]]

\* The Uniform waveform with the timescale, trigger phase and samples of w.
AsUniform(w) == UniformAnalogWaveform(w.m_timescale, w.m_triggerPhase, w.m_samples)

\* w is Sparse with offset[i] = i and duration[i] = 1: it encodes AsUniform(w).
EncodesUniform(w) ==
    /\ IsSparse(w)
    /\ w.m_offsets = [i \in 1 .. Len(w.m_samples) |-> i - 1]
    /\ w.m_durations = [i \in 1 .. Len(w.m_samples) |-> 1]

\* Sum of squared amplitudes.
RECURSIVE Energy(_)
Energy(samples) ==
    IF samples = << >> THEN 0
    ELSE Head(samples) * Head(samples) + Energy(Tail(samples))

---------------------------------------------------------------------------
(* Properties                                                              *)

\* C1: a session that reaches DONE holds exactly nWaveforms history records,
\* in the order the trials completed, has issued one Arm per trial and no
\* Arm since, and has no acquisition outstanding.
C1_MonotonicHistory ==
    m_state = "STATE_DONE" =>
        /\ Len(m_skews) = nWaveforms
        /\ Len(m_correlations) = nWaveforms
        /\ \A i \in 1 .. nWaveforms :
              /\ i \in DOMAIN trialLog
              /\ m_skews[i] = trialLog[i].skew
              /\ m_correlations[i] = trialLog[i].correlation
        /\ armCount = nWaveforms
        /\ ~armed

\* C2: the result recorded for a trial is a result of correlating that
\* trial's pair starting from a fresh running best; nothing of an earlier
\* trial enters it.
C2_TrialAlone ==
    Correlated =>
        \E out \in CorrelationOutcomes(FreshBest, primaryData, secondaryData) :
            /\ RecordedBest = out
            /\ m_correlations[Len(m_correlations)] = out.corr
            /\ m_skews[Len(m_skews)] = Skew(out.off, primaryData)

\* C3: after one correlation on a fresh wizard, if some candidate matched at
\* least one sample pair, bestCorrelation is the maximum normalized
\* correlation over those candidates and bestOffset is a candidate attaining it.
C3_ArgMax ==
    LET valid == { d \in Window :
                     ~IsNaN(CandidateCorrelation(primaryData, secondaryData, d)) }
    IN  (Correlated /\ valid # { }) =>
            /\ m_bestCorrelationOffset \in valid
            /\ CandidateCorrelation(primaryData, secondaryData,
                                    m_bestCorrelationOffset) = m_bestCorrelation
            /\ \A d \in valid :
                  Geq(m_bestCorrelation,
                      CandidateCorrelation(primaryData, secondaryData, d))

\* C4: a tick that finds a new pair of mixed variants appends no record and
\* does not pass for a completed trial: the state machine does not enter
\* CORRELATE, from where the trial would be counted.
C4_MixedAborted ==
    [][ (NewDataTick /\ MixedVariants(primaryData, secondaryData)) =>
            /\ m_skews' = m_skews
            /\ m_correlations' = m_correlations
            /\ m_state' # "STATE_CORRELATE" ]_vars

\* C5: a candidate without matched sample pairs never replaces the running
\* best: the best correlation is never not-a-number, and the best offset
\* names such a candidate only when nothing replaced the constructor's values.
C5_NaNImmunity ==
    /\ ~IsNaN(m_bestCorrelation)
    /\ \A i \in DOMAIN m_correlations : ~IsNaN(m_correlations[i])
    /\ ( /\ Correlated
         /\ m_bestCorrelationOffset \in Window
         /\ IsNaN(CandidateCorrelation(primaryData, secondaryData,
                                       m_bestCorrelationOffset)) )
       => RecordedBest = FreshBest

\* C5 witness: a correlation has run whose first candidate, -m_maxSkewSamples,
\* matched no sample pair while a later candidate had positive correlation,
\* and the positive one is the best.
C5_Witness ==
    /\ Correlated
    /\ IsNaN(CandidateCorrelation(primaryData, secondaryData, -m_maxSkewSamples))
    /\ Gt(m_bestCorrelation, Zero)
    /\ m_bestCorrelationOffset # -m_maxSkewSamples

\* C6: when no candidate of the window matched any sample pair, the outcome
\* is the sentinel zero at the window's first candidate.
C6_EmptyOverlap ==
    ( /\ Correlated
      /\ \A d \in Window :
            IsNaN(CandidateCorrelation(primaryData, secondaryData, d)) )
    => /\ m_bestCorrelation = Zero
       /\ m_bestCorrelationOffset = -m_maxSkewSamples

\* C7: on the CPU backend a non-empty Uniform waveform correlated against an
\* exact copy of itself gives offset 0 and its self-energy, the sum of the
\* squared amplitudes over the length.
C7_SelfAlignment ==
    ( /\ Correlated
      /\ ~AcceleratorUsed
      /\ IsUniform(primaryData)
      /\ secondaryData = primaryData
      /\ primaryData.m_samples # << >> )
    => /\ m_bestCorrelationOffset = 0
       /\ m_bestCorrelation = Quotient(Energy(primaryData.m_samples),
                                       Len(primaryData.m_samples))

\* C8: when the secondary is the primary delayed by k samples, k # 0, with
\* part of the primary still inside it, the best offset is k under one sign
\* convention: the same sign gives the result for this pair and every result
\* for the pair shifted the other way.
C8_KnownShiftRecovery ==
    \A k \in Window \ { 0 } :
        ( /\ Correlated
          /\ IsUniform(primaryData)
          /\ -k \in Window
          /\ Abs(k) < Len(primaryData.m_samples)
          /\ secondaryData = ShiftBy(primaryData, k) )
        => \E sign \in { 1, -1 } :
              /\ m_bestCorrelationOffset = sign * k
              /\ \A out \in CorrelationOutcomes(FreshBest, primaryData,
                                                ShiftBy(primaryData, -k)) :
                    out.off = sign * (-k)

\* C9: a Uniform / Uniform trial correlated on the CPU backend leaves the
\* result the accelerator backend gives for the same pair (the accelerator
\* result depends on the pair alone, so it is the result of the same trial of
\* the same session run on the accelerator).
C9_BackendEquivalence ==
    ( /\ Correlated
      /\ IsUniform(primaryData)
      /\ ~AcceleratorUsed )
    => RecordedBest =
          DoProcessWaveformUniformUnequalRateVulkan(primaryData, secondaryData)

\* C10: in DONE the calibration sink holds exactly one write, the median
\* skew of the recorded trials.
C10_MedianWritten ==
    (m_state = "STATE_DONE" /\ m_skews # << >>) =>
        m_scopeDeskewCal = << Median(m_skews) >>

\* C11: a new Uniform / Uniform pair is correlated by the accelerator backend
\* exactly when both capability flags are set and by the Uniform CPU backend
\* otherwise, a new Sparse / Sparse pair by the Sparse CPU backend, and in
\* each case the tick appends exactly one record.
C11_BackendSelection ==
    [][ (NewDataTick /\ SameVariant(primaryData, secondaryData)) =>
            /\ Len(m_skews') = Len(m_skews) + 1
            /\ Len(m_correlations') = Len(m_correlations) + 1
            /\ Len(trialLog') = Len(trialLog) + 1
            /\ trialLog'[Len(trialLog')].backend =
                  IF IsSparse(primaryData)
                  THEN "DoProcessWaveformSparse"
                  ELSE IF g_hasShaderInt64 /\ g_hasShaderFloat64
                       THEN "DoProcessWaveformUniformUnequalRateVulkan"
                       ELSE "DoProcessWaveformUniformUnequalRate" ]_vars

\* C11 witness: with the 64-bit integer flag set and the double-precision
\* flag clear, a Uniform / Uniform trial has been recorded by the CPU backend.
C11_Witness ==
    /\ Correlated
    /\ IsUniform(primaryData)
    /\ g_hasShaderInt64
    /\ ~g_hasShaderFloat64
    /\ trialLog # << >>
    /\ trialLog[Len(trialLog)].backend = "DoProcessWaveformUniformUnequalRate"

\* A correlation is executing: the control thread is between the tick's
\* stale-data check and the return of StartCorrelation.
Correlating == tickPc \in { "StartCorrelation", "Backend", "Blocked", "Return" }

\* C12: while a correlation is executing the control thread owns the
\* waveform-data mutex in shared mode and no one owns it exclusively, and no
\* step taken meanwhile changes the waveform on either stream.
C12_SharedLockHeld ==
    [][ Correlating =>
            /\ waveformDataMutex.shared >= 1
            /\ ~waveformDataMutex.exclusive
            /\ writer # "writing"
            /\ primaryData' = primaryData
            /\ secondaryData' = secondaryData ]_vars

\* C12 witness: a backend is running while the acquisition thread waits for
\* the exclusive lock.
C12_Witness ==
    /\ tickPc = "Backend"
    /\ writer = "waiting"
    /\ waveformDataMutex.shared >= 1

\* C13: an Arm is issued only when no acquisition is outstanding, at most
\* nWaveforms times, and the Arm for trial k + 1 only when the history holds
\* the records of the k trials before it, in completion order.
C13_StrictlySequential ==
    [][ armCount' = armCount + 1 =>
            /\ ~armed
            /\ armCount' <= nWaveforms
            /\ Len(m_skews) = armCount
            /\ Len(m_correlations) = armCount
            /\ \A i \in 1 .. armCount :
                  /\ i \in DOMAIN trialLog
                  /\ m_skews[i] = trialLog[i].skew
                  /\ m_correlations[i] = trialLog[i].correlation ]_vars

\* The tick's check finds no waveform on the primary stream, or one whose
\* signature is the recorded one.
NotReady ==
    \/ primaryData = NoData
    \/ << m_lastTriggerTimestamp, m_lastTriggerFs >>
         = << primaryData.m_startTimestamp, primaryData.m_startFemtoseconds >>

C15_NoStaleReprocessing ==
    [][ (m_state = "STATE_ACQUIRE" /\ m_state' = "STATE_CORRELATE") =>
            /\ primaryData # NoData
            /\ << m_lastTriggerTimestamp, m_lastTriggerFs >>
                 # << primaryData.m_startTimestamp, primaryData.m_startFemtoseconds >>
            /\ << m_lastTriggerTimestamp', m_lastTriggerFs' >>
                 = << primaryData.m_startTimestamp, primaryData.m_startFemtoseconds >>
            /\ << primaryData.m_startTimestamp, primaryData.m_startFemtoseconds >>
                 = Signature(m_measureCycle + 1) ]_vars

\* C15 witness: the second trial has correlated the second acquisition and
\* recorded its signature.
C15_Witness ==
    /\ m_state = "STATE_CORRELATE"
    /\ m_measureCycle = 1
    /\ Len(m_skews) = 2
    /\ << m_lastTriggerTimestamp, m_lastTriggerFs >> = Signature(2)

\* C16: once Start has put the wizard in ACQUIRE, it eventually reaches DONE
\* with the trial counter at nWaveforms, one count per pass through
\* CORRELATE, and from then on stays in DONE.
C16_EventuallyDone ==
    (m_state = "STATE_ACQUIRE")
        ~> [](m_state = "STATE_DONE" /\ m_measureCycle = nWaveforms)

\* C16 witness: DONE reached after nWaveforms acquisitions were requested,
\* delivered and counted.
C16_Witness ==
    /\ m_state = "STATE_DONE"
    /\ m_measureCycle = nWaveforms
    /\ armCount = nWaveforms
    /\ acqCount = nWaveforms

\* C17: the trial counter stays within 0 .. nWaveforms; a step taken in
\* CORRELATE is a tick that adds exactly one to it and leaves CORRELATE, for
\* ACQUIRE with one Arm when the new count is below nWaveforms and for DONE
\* with no Arm otherwise; no other step changes the counter; and the state
\* is DONE exactly when the counter is nWaveforms.
C17_TrialCounter ==
    [][ /\ m_measureCycle \in 0 .. nWaveforms
        /\ m_measureCycle' \in 0 .. nWaveforms
        /\ (m_state = "STATE_DONE") <=> (m_measureCycle = nWaveforms)
        /\ (m_state' = "STATE_DONE") <=> (m_measureCycle' = nWaveforms)
        /\ IF m_state = "STATE_CORRELATE"
           THEN /\ m_measureCycle' = m_measureCycle + 1
                /\ IF m_measureCycle' < nWaveforms
                   THEN /\ m_state' = "STATE_ACQUIRE"
                        /\ armCount' = armCount + 1
                        /\ armed'
                   ELSE /\ m_state' = "STATE_DONE"
                        /\ armCount' = armCount
                        /\ ~armed'
           ELSE m_measureCycle' = m_measureCycle ]_vars

\* C17 witness: the ninth tick in CORRELATE has counted its trial and issued
\* the tenth Arm.
C17_Witness ==
    /\ m_state = "STATE_ACQUIRE"
    /\ m_measureCycle = nWaveforms - 1
    /\ armed
    /\ armCount = nWaveforms

\* C18: the record appended by a correlation has skew equal to the best
\* offset times the primary timescale, without the trigger phase of either
\* waveform; the best offset lies in the window; and on the accelerator
\* path a best that replaced the scan's initial zero is the output element
\* at index offset + m_maxSkewSamples.
C18_SkewFromOffset ==
    Correlated =>
        /\ m_skews # << >>
        /\ m_skews[Len(m_skews)] = m_bestCorrelationOffset * primaryData.m_timescale
        /\ m_bestCorrelationOffset \in Window
        /\ ( /\ IsUniform(primaryData)
             /\ AcceleratorUsed
             /\ m_bestCorrelation # Zero )
           => Dispatch(UniformUnequalCrossCorrelateArgs(primaryData, secondaryData,
                                                        -m_maxSkewSamples),
                       primaryData.m_samples, secondaryData.m_samples)
                  [m_bestCorrelationOffset + m_maxSkewSamples] = m_bestCorrelation

\* C18 witness: an accelerator trial on waveforms with different trigger
\* phases and a primary timescale of 2 has recorded a non-zero skew.
C18_Witness ==
    /\ Correlated
    /\ IsUniform(primaryData)
    /\ AcceleratorUsed
    /\ primaryData.m_timescale = 2
    /\ secondaryData.m_triggerPhase # primaryData.m_triggerPhase
    /\ m_bestCorrelationOffset # 0
    /\ m_skews = << 2 * m_bestCorrelationOffset >>

\* C19: on the Uniform CPU path, for every candidate d, a primary sample i
\* whose target time t = i * timescale + deltaFs is not negative and lies
\* inside the secondary waveform is multiplied with the secondary sample at
\* the direct index t \div secondary timescale (indices from zero).
C19_DirectIndex ==
    ( /\ Correlated
      /\ IsUniform(primaryData)
      /\ ~AcceleratorUsed )
    => \A d \in Window :
         LET deltaFs == UniformDeltaFs(primaryData, secondaryData, d)
             matched == UniformMatched(primaryData, secondaryData, deltaFs,
                                       0, 0, << >>)
         IN  \A i \in 0 .. (Len(primaryData.m_samples) - 1) :
               LET t == i * primaryData.m_timescale + deltaFs IN
               ( /\ t >= 0
                 /\ t < Len(secondaryData.m_samples) * secondaryData.m_timescale )
               => \E k \in DOMAIN matched :
                     matched[k] = << i, t \div secondaryData.m_timescale >>

\* C20: for a Sparse pair that encodes a Uniform pair (offset[i] = i,
\* duration[i] = 1), the Sparse loop gives for every candidate d the
\* samplesProcessed and correlation the Uniform loop gives for the Uniform
\* pair with the same timescales, trigger phases and samples.
C20_SparseAsUniform ==
    ( /\ Correlated
      /\ EncodesUniform(primaryData)
      /\ EncodesUniform(secondaryData) )
    => \A d \in Window :
         SparseLoop(primaryData, secondaryData, primaryData.m_timescale * d,
                    0, 0, 0, 0)
           = UniformLoop(AsUniform(primaryData), AsUniform(secondaryData),
                         UniformDeltaFs(AsUniform(primaryData),
                                        AsUniform(secondaryData), d),
                         0, 0, 0, 0)

\* The pairs the shared best can hold between two critical sections: the
\* pair found on entry, or the normalized correlation of a candidate with
\* that candidate.
WholePairs ==
    { entryBest } \cup { Best(NormalizedCorrelation(d), d) : d \in Window }

\* The largest of the entry value and the normalized correlations that are
\* numbers.
MaxCorrelation ==
    LET values == { entryBest.corr } \cup
                    { NormalizedCorrelation(d) :
                        d \in { x \in Window : ~IsNaN(NormalizedCorrelation(x)) } }
    IN  CHOOSE v \in values : \A w \in values : Geq(v, w)

\* C21: in a CPU backend, under every interleaving of the workers, at most
\* one worker is inside the compare-and-update and it is the owner of cmutex;
\* whenever cmutex is free the shared best is a whole pair (the entry pair or
\* one candidate's correlation with that candidate's offset); when all
\* workers have finished, m_bestCorrelation is the largest of its entry value
\* and the candidates' normalized correlations that are numbers; and a step
\* of a worker changes, besides its own position, only cmutex or the shared
\* best, the latter only as owner of cmutex.
C21_AtomicUpdate ==
    [][ /\ \A d \in Window :
              workerPc[d] \in { "compare", "writeCorrelation", "writeOffset",
                                "unlock" }
                 => cmutex = { d }
        /\ cmutex' = { } => RecordedBest' \in WholePairs
        /\ WorkersDone' => m_bestCorrelation' = MaxCorrelation
        /\ UNCHANGED workerFrame
        /\ RecordedBest' # RecordedBest =>
              /\ cmutex # { }
              /\ cmutex' = cmutex
              /\ \A d \in cmutex : workerPc'[d] # workerPc[d] ]_vars

\* C21 witness: all workers have finished, the best found on entry was left
\* by an earlier trial, and a candidate with a larger correlation has
\* replaced it, correlation and offset together.
C21_Witness ==
    /\ WorkersDone
    /\ entryBest # FreshBest
    /\ Gt(m_bestCorrelation, entryBest.corr)
    /\ RecordedBest \in WholePairs

\* for(int i=0; i<m_measureCycle; i++): the indices at which the rows of the
\* past measurements read m_skews[i] and m_correlations[i].
PastMeasurementRows == 0 .. (m_measureCycle - 1)

\* DoRender calls DoMainProcessingFlow, which draws the table first.
DrawsTable == m_state \in { "STATE_ACQUIRE", "STATE_CORRELATE", "STATE_DONE" }

\* C22: the two histories always have the same length, and whenever the
\* table is drawn every row index below the trial counter is an index of
\* both histories: m_measureCycle <= Len(m_skews).
C22_HistoryCounter ==
    /\ Len(m_skews) = Len(m_correlations)
    /\ DrawsTable =>
          /\ m_measureCycle <= Len(m_skews)
          /\ \A i \in PastMeasurementRows :
                i < Len(m_skews) /\ i < Len(m_correlations)

\* C23: the control thread, the only shared owner of the waveform-data
\* mutex, takes the shared lock only when it does not own it already, on
\* every path through a tick, and so never waits for it behind an exclusive
\* request that waits for the control thread's own lock.
C23_NoReentrantLock ==
    [][ /\ waveformDataMutex'.shared > waveformDataMutex.shared
              => waveformDataMutex.shared = 0
        /\ waveformDataMutex'.shared <= 1
        /\ tickPc' # "Blocked" ]_vars

\* The new-data tick has run on the pair on the streams, to its end or to
\* the point where the process ended.
Ticked == m_state = "STATE_CORRELATE" \/ tickPc = "Crashed"

\* C24: in the CPU backends, for every pair (a secondary or a primary of
\* size zero included) and every candidate d, the cursor starts at 0 and
\* never decreases, and every read of the secondary's samples, offsets or
\* durations is at a cursor value below the secondary's size.
C24_IndexSafety ==
    (Ticked /\ OnCpu(primaryData, secondaryData)) =>
        \A d \in Window :
            LET trace == CursorTrace(primaryData, secondaryData, d) IN
            /\ trace.cursor[1] = 0
            /\ \A k \in 1 .. (Len(trace.cursor) - 1) :
                  trace.cursor[k] <= trace.cursor[k + 1]
            /\ \A k \in DOMAIN trace.reads :
                  /\ trace.reads[k] >= 0
                  /\ trace.reads[k] < Len(secondaryData.m_samples)

\* C25: when the parallel loop of a CPU backend has finished, the best
\* offset (and with it the skew to record) is the one every order of the
\* workers' critical sections gives for the same pair, window and entry best.
C25_OrderIndependent ==
    WorkersDone =>
        \A out \in CorrelationOutcomes(entryBest, primaryData, secondaryData) :
            /\ out.off = m_bestCorrelationOffset
            /\ Skew(out.off, primaryData)
                 = Skew(m_bestCorrelationOffset, primaryData)

\* C26: a tick in ACQUIRE that finds a new primary waveform while the
\* secondary stream has none consumes no trial: it leaves the recorded
\* signature as it was, appends no record, issues no Arm and does not enter
\* CORRELATE, from where the trial would be counted and the next one armed.
C26_MissingSecondary ==
    [][ (NewDataTick /\ secondaryData = NoData) =>
            /\ UNCHANGED << m_lastTriggerTimestamp, m_lastTriggerFs >>
            /\ UNCHANGED << m_skews, m_correlations, m_measureCycle, armCount >>
            /\ m_state' = "STATE_ACQUIRE" ]_vars

====
